---- MODULE Spec2Model ----
(***************************************************************************)
(* PSM ingestion and spectrum-key correction (src/03_load_psm_clean.py).   *)
(*                                                                         *)
(* main() loads every psm.tsv with a worker pool (load_single_psm_file),   *)
(* concatenates the loaded tables, adds the derived columns, computes the  *)
(* summary and saves the outputs.                                          *)
(*                                                                         *)
(* Python values are tagged records: None, NaN, PyStr, PyInt, PyFloat.     *)
(* A Python string is a sequence of one-character strings, so that         *)
(* splitting, matching, parsing and formatting are computed character by   *)
(* character.  A float is an exact reduced fraction num/den; the model     *)
(* keeps |scan| far below 2^53, where int -> float64 is exact.             *)
(*                                                                         *)
(* Biosaur2 feature extraction (src/extract_biosaur_parallel_clean.py and  *)
(* src/biosaur_simple.py) is a second program over its own variables: each *)
(* run goes through the mzML files, skips a file whose output is large     *)
(* enough, and calls biosaur2 for the others.  What biosaur2 does to the   *)
(* output file is a choice over the outcomes of a subprocess.              *)
(***************************************************************************)
EXTENDS Integers, Sequences, FiniteSets, TLC

VARIABLES
    args,       \* the parsed command line: args.cores
    cpus,       \* cpu_count() of the host
    n_cores,    \* config.n_cores
    pool,       \* the size of the worker pool, 0 while there is none
    found,      \* the psm.tsv files below psm_dir, in the order of rglob
    files,      \* psm_files: the files main hands to the pool
    pc,         \* where main is: "start", "pool", "derive", "stats", "save",
                \* "done", "crashed"
    results,    \* what pool.map has collected from load_single_psm_file so far
    log,        \* the files whose loading printed "Error loading ..."
    df_all,     \* the consolidated table
    summary,    \* the dictionary print_validation_stats returned
    outputs,    \* the files save_outputs wrote
    error,      \* the exception that ended main, "" when there is none
    script,     \* the extraction script that runs: "parallel", "simple",
                \* "none" while the ingestion runs
    mzml_files, \* the mzML files of MZML_DIR, numbered in sorted order
    out_dir,    \* OUT_DIR: for each mzML file its <stem>.features.tsv
    run_no,     \* the number of the run of the script, from 1
    reported,   \* what the run has reported for each file so far
    previous,   \* what the run before reported for each file
    invoked,    \* the files the run has called biosaur2 for
    subprocess, \* for each file the subprocess.run the script is in, if any
    changed,    \* the outputs that changed between the run before and this
    counts      \* success_count, skip_count, fail_count of biosaur_simple

\* the state of the ingestion
ingestion ==
    <<args, cpus, n_cores, pool, found, files, pc, results, log, df_all,
      summary, outputs, error>>

\* the state of the feature extraction
extraction ==
    <<script, mzml_files, out_dir, run_no, reported, previous, invoked,
      subprocess, changed, counts>>

vars == <<ingestion, extraction>>

----------------------------------------------------------------------------
(* Bounds of the model                                                     *)

\* rows in one batch of input tables (all files together)
MaxRows == 4
\* input files in one batch
NumFiles == 2
\* length of the exhaustively enumerated identifier strings
MaxLen == 5
\* number fields of the enumerated folder names
MaxFields == 5
\* the longest peptide sequence
MaxPeptide == 5

----------------------------------------------------------------------------
(* Python values                                                           *)

None == [tag |-> "None"]
NaN == [tag |-> "nan"]
PyStr(s) == [tag |-> "str", v |-> s]
PyInt(n) == [tag |-> "int", v |-> n]

RECURSIVE gcd(_, _)
gcd(a, b) == IF b = 0 THEN a ELSE gcd(b, a % b)

\* the float with value num/den (den > 0), as a reduced fraction
PyFloat(num, den) ==
    LET g == gcd(IF num < 0 THEN -num ELSE num, den)
    IN  [tag |-> "float", num |-> num \div g, den |-> den \div g]

\* pd.notna on a scalar
pd_notna(x) == x.tag \notin {"None", "nan"}

\* float(n) for an int, and for a missing value
to_float(x) ==
    CASE x.tag = "int" -> PyFloat(x.v, 1)
      [] x.tag = "None" -> NaN
      [] OTHER -> x

----------------------------------------------------------------------------
(* Strings                                                                 *)

Digits == {"0", "1", "2", "3", "4", "5", "6", "7", "8", "9"}

DigitVal(c) ==
    CASE c = "0" -> 0 [] c = "1" -> 1 [] c = "2" -> 2 [] c = "3" -> 3
      [] c = "4" -> 4 [] c = "5" -> 5 [] c = "6" -> 6 [] c = "7" -> 7
      [] c = "8" -> 8 [] c = "9" -> 9

DigitChar(d) ==
    CASE d = 0 -> "0" [] d = 1 -> "1" [] d = 2 -> "2" [] d = 3 -> "3"
      [] d = 4 -> "4" [] d = 5 -> "5" [] d = 6 -> "6" [] d = 7 -> "7"
      [] d = 8 -> "8" [] d = 9 -> "9"

RECURSIVE pow10(_)
pow10(n) == IF n = 0 THEN 1 ELSE 10 * pow10(n - 1)

\* the value of a sequence of digit characters
RECURSIVE digits_value(_)
digits_value(s) ==
    IF s = <<>> THEN 0
    ELSE 10 * digits_value(SubSeq(s, 1, Len(s) - 1)) + DigitVal(s[Len(s)])

\* str(n) for a natural number
RECURSIVE nat_str(_)
nat_str(n) ==
    IF n < 10 THEN <<DigitChar(n)>>
    ELSE Append(nat_str(n \div 10), DigitChar(n % 10))

\* str(n) for an int
int_str(n) == IF n < 0 THEN <<"-">> \o nat_str(-n) ELSE nat_str(n)

\* s with every "_" removed
RECURSIVE drop_underscores(_)
drop_underscores(s) ==
    IF s = <<>> THEN <<>>
    ELSE IF s[1] = "_" THEN drop_underscores(Tail(s))
         ELSE <<s[1]>> \o drop_underscores(Tail(s))

\* the part of an int literal after its sign: digits, single "_" between them
int_body(s) == IF s # <<>> /\ s[1] \in {"-", "+"} THEN Tail(s) ELSE s

\* int(s) does not raise ValueError (s holds no whitespace in this model)
int_ok(s) ==
    LET b == int_body(s)
    IN  /\ b # <<>>
        /\ \A i \in 1..Len(b) : b[i] \in Digits \cup {"_"}
        /\ b[1] # "_"
        /\ b[Len(b)] # "_"
        /\ \A i \in 1..(Len(b) - 1) : ~(b[i] = "_" /\ b[i + 1] = "_")

\* int(s), where int_ok(s)
int_value(s) ==
    LET n == digits_value(drop_underscores(int_body(s)))
    IN  IF s[1] = "-" THEN -n ELSE n

\* the f-string rendering "{x}" of a str, an int, or an integral float
format(x) ==
    CASE x.tag = "str" -> x.v
      [] x.tag = "int" -> int_str(x.v)
      [] x.tag = "float" -> int_str(x.num) \o <<".", "0">>
      [] x.tag = "nan" -> <<"n", "a", "n">>
      [] x.tag = "None" -> <<"N", "o", "n", "e">>

\* index of the last "." of s at or before i, 0 when there is none
RECURSIVE last_dot(_, _)
last_dot(s, i) ==
    IF i = 0 \/ s[i] = "." THEN i ELSE last_dot(s, i - 1)

\* s[:end].rsplit('.', maxsplit)
RECURSIVE rsplit_before(_, _, _)
rsplit_before(s, end, maxsplit) ==
    IF maxsplit = 0 \/ last_dot(s, end) = 0 THEN <<SubSeq(s, 1, end)>>
    ELSE Append(rsplit_before(s, last_dot(s, end) - 1, maxsplit - 1),
                SubSeq(s, last_dot(s, end) + 1, end))

\* index of the first "." of s at or after i, 0 when there is none
RECURSIVE first_dot(_, _)
first_dot(s, i) ==
    IF i > Len(s) THEN 0 ELSE IF s[i] = "." THEN i ELSE first_dot(s, i + 1)

\* s[start-1:].split('.', maxsplit)
RECURSIVE split_after(_, _, _)
split_after(s, start, maxsplit) ==
    IF maxsplit = 0 \/ first_dot(s, start) = 0
    THEN <<SubSeq(s, start, Len(s))>>
    ELSE <<SubSeq(s, start, first_dot(s, start) - 1)>>
         \o split_after(s, first_dot(s, start) + 1, maxsplit - 1)

\* rsplit splitting from the left, as s.split('.', maxsplit) does
rsplit_from_left(s, maxsplit) == split_after(s, 1, maxsplit)

\* s.rsplit('.', maxsplit)
rsplit(s, maxsplit) == rsplit_before(s, Len(s), maxsplit)

----------------------------------------------------------------------------
(* PARSERS                                                                 *)

\* number of split points of the identifier
MaxSplit == 3

\* parse_spectrum_column: <<mzml_name, scan_number, charge>>; a value that
\* is not a string raises AttributeError, a segment that is no integer
\* raises ValueError, and both are caught.
\* parsed_parts keeping the run name when a segment is no integer
parsed_parts_partial(parts) ==
    IF Len(parts) >= 4
    THEN <<PyStr(parts[1]),
           IF int_ok(parts[2]) THEN PyInt(int_value(parts[2])) ELSE None,
           IF int_ok(parts[4]) THEN PyInt(int_value(parts[4])) ELSE None>>
    ELSE <<None, None, None>>

\* the body of the try block, given the parts of the split
parsed_parts(parts) ==
    IF Len(parts) >= 4 /\ int_ok(parts[2]) /\ int_ok(parts[4])
    THEN <<PyStr(parts[1]), PyInt(int_value(parts[2])),
           PyInt(int_value(parts[4]))>>
    ELSE <<None, None, None>>

parse_spectrum_column(spectrum_str) ==
    IF spectrum_str.tag # "str" THEN <<None, None, None>>
    ELSE parsed_parts(rsplit(spectrum_str.v, MaxSplit))

\* the delimiter of the spectrum key
Delim == <<":", ":">>

\* create_spectrum_key with the scan number alone as the key
create_spectrum_key_scan_only(mzml_name, scan_number) ==
    PyStr(format(scan_number))

\* create_spectrum_key: f"{mzml_name}::{scan_number}"
create_spectrum_key(mzml_name, scan_number) ==
    PyStr(format(mzml_name) \o Delim \o format(scan_number))

\* one regular-expression element: "D" is the group (\d+), any other
\* character is itself.  Every literal that follows a group is a non-digit,
\* so a group takes the whole run of digits (greedy, no backtracking).
RECURSIVE digit_run(_, _)
digit_run(s, i) ==
    IF i <= Len(s) /\ s[i] \in Digits THEN digit_run(s, i + 1) ELSE i

\* re.match(pattern, s) from position i with the groups found so far:
\* the sequence of groups, or <<"nomatch">>
RECURSIVE re_match_from(_, _, _, _)
re_match_from(pattern, s, i, groups) ==
    IF pattern = <<>> THEN groups
    ELSE IF pattern[1] = "D"
         THEN LET j == digit_run(s, i)
              IN  IF j = i THEN <<"nomatch">>
                  ELSE re_match_from(Tail(pattern), s, j,
                                     Append(groups, SubSeq(s, i, j - 1)))
         ELSE IF i <= Len(s) /\ s[i] = pattern[1]
              THEN re_match_from(Tail(pattern), s, i + 1, groups)
              ELSE <<"nomatch">>

re_match(pattern, s) == re_match_from(pattern, s, 1, <<>>)

\* r'(\d+)_(\d+)_(\d+)_(\d+)mz_(\d+)'
DecimalPattern == <<"D", "_", "D", "_", "D", "_", "D", "m", "z", "_", "D">>
\* r'(\d+)_(\d+)_(\d+)mz_(\d+)'
IntegerPattern == <<"D", "_", "D", "_", "D", "m", "z", "_", "D">>

\* float(f"{whole}.{frac}") for two digit strings
float_of(whole, frac) ==
    PyFloat(digits_value(whole) * pow10(Len(frac)) + digits_value(frac),
            pow10(Len(frac)))

\* folder_metadata reading the window of a decimal-style name from one
\* group, as for an integer-style name
folder_metadata_whole(decimal, integer) ==
    IF decimal # <<"nomatch">>
    THEN <<float_of(decimal[3], <<"0">>), PyInt(digits_value(decimal[5]))>>
    ELSE IF integer # <<"nomatch">>
         THEN <<float_of(integer[3], <<"0">>), PyInt(digits_value(integer[4]))>>
         ELSE <<None, None>>

\* the two attempts of parse_folder_name, given what each re.match found
folder_metadata(decimal, integer) ==
    IF decimal # <<"nomatch">>
    THEN <<float_of(decimal[3], decimal[4]), PyInt(digits_value(decimal[5]))>>
    ELSE IF integer # <<"nomatch">>
         THEN <<float_of(integer[3], <<"0">>), PyInt(digits_value(integer[4]))>>
         ELSE <<None, None>>

\* parse_folder_name: <<window_mz, replicate>>
parse_folder_name(folder_name) ==
    folder_metadata(re_match(DecimalPattern, folder_name),
                    re_match(IntegerPattern, folder_name))

----------------------------------------------------------------------------
(* pandas                                                                  *)

\* a list assigned as a column: ints next to None make a float64 column
\* (int -> float, None -> NaN); all ints stay int64, all None stay None
pd_column(vals) ==
    IF /\ \E i \in 1..Len(vals) : vals[i].tag = "int"
       /\ \E i \in 1..Len(vals) : vals[i].tag = "None"
    THEN [i \in 1..Len(vals) |-> to_float(vals[i])]
    ELSE vals

\* pd_concat_column taking the dtype of the first table
pd_concat_column_first(vals) ==
    IF vals[1].tag \in {"float", "nan"}
    THEN [i \in 1..Len(vals) |-> to_float(vals[i])]
    ELSE vals

\* the values of one column after pd.concat: with a string in it the
\* column is of dtype object and the values stay as they are; without one,
\* a float64 part makes the column float64; otherwise the values stay
pd_concat_column(vals) ==
    IF /\ \A i \in 1..Len(vals) : vals[i].tag # "str"
       /\ \E i \in 1..Len(vals) : vals[i].tag \in {"float", "nan"}
    THEN [i \in 1..Len(vals) |-> to_float(vals[i])]
    ELSE vals

\* concatenation of a sequence of sequences
RECURSIVE flatten(_)
flatten(ss) == IF ss = <<>> THEN <<>> ELSE ss[1] \o flatten(Tail(ss))

\* [f(s[1]), ..., f(s[n])]
seq_map(f(_), s) == [i \in 1..Len(s) |-> f(s[i])]

----------------------------------------------------------------------------
(* FILE LOADER                                                             *)

\* the folder of the library runs
Lib == <<"l", "i", "b">>

\* the cell of a column that the table does not have
NoColumn == [tag |-> "nocolumn"]

\* list(df.columns) of the table of a file that holds the Spectrum column
\* alone, after load_single_psm_file has added its columns
LoadedColumns ==
    <<"Spectrum", "source_folder", "window_mz", "replicate", "mzml_name",
      "scan_number", "charge_from_spectrum", "spectrum_key">>

\* The table load_single_psm_file builds from the Spectrum cells of a file
\* in folder_name: one row per cell, with the added columns.  A table is
\* the sequence of its rows; the field columns of a row is df.columns, the
\* column index of the table the row is in, and no column of its own.
table_of(folder_name, cells, meta, mzml_name, scan_number, charge) ==
    [i \in 1..Len(cells) |->
        [columns |-> LoadedColumns,
         Spectrum |-> cells[i],
         Peptide |-> NoColumn,
         source_folder |-> folder_name,
         window_mz |-> meta[1],
         replicate |-> meta[2],
         mzml_name |-> mzml_name[i],
         scan_number |-> scan_number[i],
         charge_from_spectrum |-> charge[i],
         spectrum_key |->
             IF pd_notna(mzml_name[i]) /\ pd_notna(scan_number[i])
             THEN create_spectrum_key(mzml_name[i], scan_number[i])
             ELSE None]]

\* the columns taken from the parsed Spectrum column
parsed_table(folder_name, cells, spectrum_parsed) ==
    table_of(folder_name, cells, parse_folder_name(folder_name),
             [i \in 1..Len(cells) |-> spectrum_parsed[i][1]],
             pd_column([i \in 1..Len(cells) |-> spectrum_parsed[i][2]]),
             pd_column([i \in 1..Len(cells) |-> spectrum_parsed[i][3]]))

loaded_table(folder_name, cells) ==
    parsed_table(folder_name, cells, seq_map(parse_spectrum_column, cells))

\* the table with the Peptide column that read_csv found in the file
with_peptide(df, has_peptide, peptides) ==
    IF has_peptide
    THEN [i \in 1..Len(df) |->
             [df[i] EXCEPT !.Peptide = peptides[i],
                           !.columns = <<"Spectrum", "Peptide">> \o Tail(@)]]
    ELSE df

\* load_single_psm_file: ok is FALSE when it returns None; logged is TRUE
\* when the except branch printed the error.  A file is a table with a
\* Spectrum column ("table"), a table without one ("no_spectrum": KeyError)
\* or a file read_csv cannot read ("unreadable").
load_single_psm_file(psm_file) ==
    IF psm_file.folder = Lib
    THEN [ok |-> FALSE, logged |-> FALSE, df |-> <<>>]
    ELSE IF psm_file.kind = "unreadable"
    THEN [ok |-> FALSE, logged |-> TRUE, df |-> <<>>]
    ELSE IF Len(psm_file.rows) = 0
    THEN [ok |-> FALSE, logged |-> FALSE, df |-> <<>>]
    ELSE IF psm_file.kind = "no_spectrum"
    THEN [ok |-> FALSE, logged |-> TRUE, df |-> <<>>]
    ELSE [ok |-> TRUE, logged |-> FALSE,
          df |-> with_peptide(loaded_table(psm_file.folder, psm_file.rows),
                              psm_file.has_peptide, psm_file.peptides)]

----------------------------------------------------------------------------
(* DERIVED COLUMNS                                                         *)

\* rows with the Spectrum column and the four numeric columns replaced
with_columns(rows, spectrum, window_mz, replicate, scan_number, charge) ==
    [i \in 1..Len(rows) |->
        [rows[i] EXCEPT !.Spectrum = spectrum[i],
                        !.window_mz = window_mz[i],
                        !.replicate = replicate[i],
                        !.scan_number = scan_number[i],
                        !.charge_from_spectrum = charge[i]]]

\* a column that only some of the tables have is NaN in the rows of the
\* others
fill_peptide(rows) ==
    IF \E i \in 1..Len(rows) : rows[i].Peptide # NoColumn
    THEN [i \in 1..Len(rows) |->
             IF rows[i].Peptide = NoColumn
             THEN [rows[i] EXCEPT !.Peptide = NaN]
             ELSE rows[i]]
    ELSE rows

\* the union of the column indexes of the tables, each name where it
\* first appears (sort=False)
RECURSIVE index_union(_, _)
index_union(names, rows) ==
    IF rows = <<>> THEN names
    ELSE index_union(
             names \o SelectSeq(rows[1].columns,
                                LAMBDA c : \A k \in 1..Len(names) : names[k] # c),
             Tail(rows))

\* the rows under the column index of the concatenated table
with_index(rows, names) ==
    [i \in 1..Len(rows) |-> [rows[i] EXCEPT !.columns = names]]

\* the rows of all tables in order, each column in one dtype, under the
\* union of the column indexes
concat_rows(rows) ==
    with_columns(
        with_index(fill_peptide(rows), index_union(<<>>, rows)),
        pd_concat_column([i \in 1..Len(rows) |-> rows[i].Spectrum]),
        pd_concat_column([i \in 1..Len(rows) |-> rows[i].window_mz]),
        pd_concat_column([i \in 1..Len(rows) |-> rows[i].replicate]),
        pd_concat_column([i \in 1..Len(rows) |-> rows[i].scan_number]),
        pd_concat_column([i \in 1..Len(rows) |-> rows[i].charge_from_spectrum]))

\* pd.concat(dataframes, ignore_index=True)
pd_concat(dataframes) == concat_rows(flatten(dataframes))

\* pd.cut raises TypeError on a column that holds None instead of numbers
pd_cut_raises(df) == \E i \in 1..Len(df) : df[i].window_mz.tag = "None"

\* the breakpoints of the window categories
BinNarrow == 4
BinMedium == 12
BinWide == 100

\* a value of the categorical column
Category(name) == [tag |-> "category", v |-> name]

\* window_category with the bins closed on the left, as pd.cut(right=False)
window_category_left(w) ==
    IF w.tag # "float" THEN NaN
    ELSE IF w.num >= 0 /\ w.num < BinNarrow * w.den THEN Category("narrow")
    ELSE IF w.num >= BinNarrow * w.den /\ w.num < BinMedium * w.den
         THEN Category("medium")
    ELSE IF w.num >= BinMedium * w.den /\ w.num < BinWide * w.den
         THEN Category("wide")
    ELSE NaN

\* pd.cut(window_mz, bins=[0, 4, 12, 100], labels=[narrow, medium, wide])
window_category(w) ==
    IF w.tag # "float" THEN NaN
    ELSE IF w.num > 0 /\ w.num <= BinNarrow * w.den THEN Category("narrow")
    ELSE IF w.num > BinNarrow * w.den /\ w.num <= BinMedium * w.den
         THEN Category("medium")
    ELSE IF w.num > BinMedium * w.den /\ w.num <= BinWide * w.den
         THEN Category("wide")
    ELSE NaN

\* df.groupby('spectrum_key').size()[key]: the rows of df that carry key
psm_counts(df, key) ==
    Cardinality({i \in 1..Len(df) : df[i].spectrum_key = key})

\* df['spectrum_key'].map(psm_counts): NaN where the key is missing, and
\* then the counts are floats
n_psm_column(df) ==
    LET some_missing == \E i \in 1..Len(df) : ~pd_notna(df[i].spectrum_key)
    IN  [i \in 1..Len(df) |->
            IF ~pd_notna(df[i].spectrum_key) THEN NaN
            ELSE IF some_missing
                 THEN PyFloat(psm_counts(df, df[i].spectrum_key), 1)
                 ELSE PyInt(psm_counts(df, df[i].spectrum_key))]

\* the number a count column holds in a row, 0 for NaN
count_value(n) ==
    CASE n.tag = "int" -> n.v
      [] n.tag = "float" -> n.num \div n.den
      [] OTHER -> 0

\* the threshold of the chimeric flag
ChimericMin == 2

\* is_chimeric with the comparison n_psm > 2
is_chimeric_above(n_psm) == pd_notna(n_psm) /\ count_value(n_psm) > ChimericMin

\* df['n_psm'] >= 2
is_chimeric(n_psm) == pd_notna(n_psm) /\ count_value(n_psm) >= ChimericMin

\* the columns add_derived_columns appends for every table
DerivedColumns == <<"window_category", "n_psm", "is_chimeric">>

\* df with the columns window_category, n_psm and is_chimeric
with_derived(df, n_psm) ==
    [i \in 1..Len(df) |->
        [columns |-> df[i].columns \o DerivedColumns,
         Spectrum |-> df[i].Spectrum,
         Peptide |-> df[i].Peptide,
         source_folder |-> df[i].source_folder,
         window_mz |-> df[i].window_mz,
         replicate |-> df[i].replicate,
         mzml_name |-> df[i].mzml_name,
         scan_number |-> df[i].scan_number,
         charge_from_spectrum |-> df[i].charge_from_spectrum,
         spectrum_key |-> df[i].spectrum_key,
         window_category |-> window_category(df[i].window_mz),
         n_psm |-> n_psm[i],
         is_chimeric |-> is_chimeric(n_psm[i]),
         peptide_length |-> NoColumn]]

\* 'Peptide' in df.columns
has_peptide_column(df) == \E i \in 1..Len(df) : df[i].Peptide # NoColumn

\* index of the first "]" of s at or after i, 0 when there is none before
\* the end of the line: the dot of the pattern matches no line break
RECURSIVE first_close(_, _)
first_close(s, i) ==
    IF i > Len(s) THEN 0
    ELSE IF s[i] = "\n" THEN 0
    ELSE IF s[i] = "]" THEN i ELSE first_close(s, i + 1)

\* re.sub(r'\[.*?\]', '', s) from position i on: a "[" is removed with
\* everything up to the first "]" after it on its line; a "[" with no "]"
\* after it on its line stays
RECURSIVE strip_from(_, _)
strip_from(s, i) ==
    IF i > Len(s) THEN <<>>
    ELSE IF s[i] = "[" /\ first_close(s, i + 1) # 0
         THEN strip_from(s, first_close(s, i + 1) + 1)
         ELSE <<s[i]>> \o strip_from(s, i + 1)

\* str_replace_brackets with a greedy match over line breaks: everything
\* from the first "[" to the last "]" is removed
str_replace_greedy(cell) ==
    IF cell.tag # "str" THEN NaN
    ELSE IF \E i \in 1..Len(cell.v), j \in 1..Len(cell.v) :
                i < j /\ cell.v[i] = "[" /\ cell.v[j] = "]"
    THEN PyStr(SelectSeq(
             [k \in 1..Len(cell.v) |->
                 IF /\ \E i \in 1..k : cell.v[i] = "[" /\ \E j \in (i + 1)..Len(cell.v) : cell.v[j] = "]"
                    /\ \E j \in k..Len(cell.v) : cell.v[j] = "]" /\ \E i \in 1..(j - 1) : cell.v[i] = "["
                 THEN "" ELSE cell.v[k]],
             LAMBDA c : c # ""))
    ELSE cell

\* .str.replace(r'\[.*?\]', '', regex=True) on one cell
str_replace_brackets(cell) ==
    IF cell.tag = "str" THEN PyStr(strip_from(cell.v, 1)) ELSE NaN

\* .str.len(): the lengths are ints, or floats when a cell is missing
str_len(cells) ==
    pd_column([i \in 1..Len(cells) |->
                  IF cells[i].tag = "str" THEN PyInt(Len(cells[i].v))
                  ELSE None])

\* the .str accessor raises AttributeError on a column without strings
str_raises(df) ==
    /\ has_peptide_column(df)
    /\ \A i \in 1..Len(df) : df[i].Peptide.tag # "str"

\* df with the column peptide_length
with_peptide_length(df, lengths) ==
    [i \in 1..Len(df) |->
        [df[i] EXCEPT !.peptide_length = lengths[i],
                      !.columns = Append(@, "peptide_length")]]

peptide_lengths(df) ==
    str_len([i \in 1..Len(df) |-> str_replace_brackets(df[i].Peptide)])

\* add_derived_columns, where pd.cut and .str do not raise
add_derived_columns(df) ==
    IF has_peptide_column(df)
    THEN with_peptide_length(with_derived(df, n_psm_column(df)),
                             peptide_lengths(df))
    ELSE with_derived(df, n_psm_column(df))

----------------------------------------------------------------------------
(* VALIDATION                                                              *)

\* Series.nunique(): the distinct values that are not missing
unique_values(vals) == {vals[i] : i \in {j \in 1..Len(vals) : pd_notna(vals[j])}}

\* a < b for two floats
float_less(a, b) == a.num * b.den < b.num * a.den

\* sorted(values) for a set of floats
RECURSIVE sorted_floats(_)
sorted_floats(values) ==
    IF values = {} THEN <<>>
    ELSE LET least == CHOOSE a \in values :
                          \A b \in values \ {a} : float_less(a, b)
         IN  <<least>> \o sorted_floats(values \ {least})

\* list(df.columns)
columns_of(df) == df[1].columns

n_spectra_of(df) ==
    Cardinality(unique_values([i \in 1..Len(df) |-> df[i].spectrum_key]))

\* n_psm / n_spectra raises ZeroDivisionError when no row has a key
stats_raises(df) == n_spectra_of(df) = 0

\* print_validation_stats, where it does not raise
print_validation_stats(df) ==
    LET chimeric == SelectSeq(df, LAMBDA r : r.is_chimeric)
    IN  [n_psm |-> Len(df),
         n_spectra |-> n_spectra_of(df),
         n_files |->
             Cardinality(unique_values([i \in 1..Len(df) |-> df[i].mzml_name])),
         n_chimeric_spectra |-> n_spectra_of(chimeric),
         avg_psm_per_spectrum |-> PyFloat(Len(df), n_spectra_of(df)),
         window_sizes |->
             sorted_floats(unique_values([i \in 1..Len(df) |-> df[i].window_mz])),
         columns |-> columns_of(df)]

----------------------------------------------------------------------------
(* SAVE FUNCTIONS                                                          *)

\* spectrum_to_file giving every key the run name of the first row of df
spectrum_to_file_first_row(df) ==
    [key \in unique_values([i \in 1..Len(df) |-> df[i].spectrum_key]) |->
        df[1].mzml_name]

\* df.groupby('spectrum_key')['mzml_name'].first().to_dict(): each key with
\* the first run name that is not missing among its rows
spectrum_to_file(df) ==
    [key \in unique_values([i \in 1..Len(df) |-> df[i].spectrum_key]) |->
        LET group == {i \in 1..Len(df) :
                         df[i].spectrum_key = key /\ pd_notna(df[i].mzml_name)}
        IN  df[CHOOSE i \in group : \A j \in group : i <= j].mzml_name]

\* save_outputs: the four files
save_outputs(df, stats) ==
    [psm_clean |-> df,
     psm_chimeric |-> SelectSeq(df, LAMBDA r : r.is_chimeric),
     spectrum_to_file |-> spectrum_to_file(df),
     psm_stats |-> stats]

----------------------------------------------------------------------------
(* MAIN                                                                    *)

Pending == [done |-> FALSE, ok |-> FALSE, logged |-> FALSE, df |-> <<>>]

\* what main does not change once the pool runs
input == <<args, cpus, n_cores, pool, found>>

\* the name of the file main looks for
PsmTsv == <<"p", "s", "m", ".", "t", "s", "v">>

\* f.parts: the folders above the file, its folder and its name
parts(f) == f.above \o <<f.folder, PsmTsv>>

\* psm_files looking at the folder of the file alone
psm_files_parent_only(paths) == SelectSeq(paths, LAMBDA f : f.folder # Lib)

\* psm_files: the files found whose parts do not hold 'lib'
psm_files(paths) ==
    SelectSeq(paths,
              LAMBDA f : \A k \in 1..Len(parts(f)) : parts(f)[k] # Lib)

\* main up to the pool: config.n_cores = args.cores, the PSM files are
\* listed, and Pool(config.n_cores) raises ValueError for a size below 1
Start ==
    /\ pc = "start"
    /\ n_cores' = args.cores
    /\ files' = psm_files(found)
    /\ results' = [i \in 1..Len(psm_files(found)) |-> Pending]
    /\ IF args.cores < 1
       THEN /\ pc' = "crashed"
            /\ error' = "ValueError"
            /\ UNCHANGED pool
       ELSE /\ pc' = "pool"
            /\ pool' = args.cores
            /\ UNCHANGED error
    /\ UNCHANGED <<args, cpus, found, log, df_all, summary, outputs>>
    /\ UNCHANGED extraction

\* One worker of the pool runs load_single_psm_file on file i; pool.map
\* keeps the result at the file's position.
Collect(i, r) ==
    /\ results' = [results EXCEPT
                      ![i] = [done |-> TRUE, ok |-> r.ok,
                              logged |-> r.logged, df |-> r.df]]
    /\ log' = IF r.logged THEN log \cup {i} ELSE log

Load(i) ==
    /\ pc = "pool"
    /\ ~results[i].done
    /\ Collect(i, load_single_psm_file(files[i]))
    /\ UNCHANGED <<input, files, pc, df_all, summary, outputs, error>>
    /\ UNCHANGED extraction

\* the tables that are not None, in the order of psm_files
dataframes_of(res) ==
    LET kept == SelectSeq([i \in 1..Len(res) |-> res[i]], LAMBDA r : r.ok)
    IN  [i \in 1..Len(kept) |-> kept[i].df]

\* pool.map has returned: drop the None results and concatenate;
\* pd.concat of no table raises ValueError
Concat ==
    /\ pc = "pool"
    /\ \A i \in 1..Len(files) : results[i].done
    /\ IF dataframes_of(results) = <<>>
       THEN /\ pc' = "crashed"
            /\ error' = "ValueError"
            /\ UNCHANGED df_all
       ELSE /\ pc' = "derive"
            /\ df_all' = pd_concat(dataframes_of(results))
            /\ UNCHANGED error
    /\ UNCHANGED <<input, files, results, log, summary, outputs>>
    /\ UNCHANGED extraction

\* df_all = add_derived_columns(df_all).  pd.cut raises before a column is
\* assigned; .str raises after window_category, n_psm and is_chimeric have
\* been assigned to the table main holds.
Derive ==
    /\ pc = "derive"
    /\ IF pd_cut_raises(df_all)
       THEN /\ pc' = "crashed"
            /\ error' = "TypeError"
            /\ UNCHANGED df_all
       ELSE IF str_raises(df_all)
       THEN /\ pc' = "crashed"
            /\ error' = "AttributeError"
            /\ df_all' = with_derived(df_all, n_psm_column(df_all))
       ELSE /\ pc' = "stats"
            /\ df_all' = add_derived_columns(df_all)
            /\ UNCHANGED error
    /\ UNCHANGED <<input, files, results, log, summary, outputs>>
    /\ UNCHANGED extraction

\* summary = print_validation_stats(df_all)
Stats ==
    /\ pc = "stats"
    /\ IF stats_raises(df_all)
       THEN /\ pc' = "crashed"
            /\ error' = "ZeroDivisionError"
            /\ UNCHANGED summary
       ELSE /\ pc' = "save"
            /\ summary' = print_validation_stats(df_all)
            /\ UNCHANGED error
    /\ UNCHANGED <<input, files, results, log, df_all, outputs>>
    /\ UNCHANGED extraction

\* save_outputs(df_all, config, summary), then the final report
Save ==
    /\ pc = "save"
    /\ outputs' = save_outputs(df_all, summary)
    /\ pc' = "done"
    /\ UNCHANGED <<input, files, results, log, df_all, summary, error>>
    /\ UNCHANGED extraction

Next ==
    \/ Start
    \/ \E i \in 1..Len(files) : Load(i)
    \/ Concat
    \/ Derive
    \/ Stats
    \/ Save

----------------------------------------------------------------------------
(* Inputs                                                                  *)

\* a.b
dot(a, b) == a \o <<".">> \o b

\* the identifier <run-name>.<scan>.<scan-repeated>.<charge>
identifier(run, scan, repeated, charge) ==
    PyStr(dot(dot(dot(run, scan), repeated), charge))

\* all strings over alphabet of length n, and of length at most n
RECURSIVE strings_of(_, _)
strings_of(alphabet, n) ==
    IF n = 0 THEN {<<>>}
    ELSE {Append(s, c) : s \in strings_of(alphabet, n - 1), c \in alphabet}

strings_upto(alphabet, n) == UNION {strings_of(alphabet, k) : k \in 0..n}

\* folder names: a decimal window 1.6, an integer window 24, no metadata
FolderDecimal ==
    <<"1", "1", "8", "_", "6", "0", "_", "1", "_", "6", "m", "z", "_", "1">>
FolderInteger == <<"8", "6", "_", "4", "5", "_", "2", "4", "m", "z", "_", "2">>
FolderPlain == <<"m", "i", "s", "c">>

\* the identifiers of the batches of Spec: two runs with the same scan, the
\* same (run, scan) written differently, and an identifier that is none
IdA1 == identifier(<<"A">>, <<"1">>, <<"1">>, <<"2">>)
IdB1 == identifier(<<"B">>, <<"1">>, <<"1">>, <<"2">>)
IdBad == PyStr(<<"b", "a", "d">>)

\* the identifiers of the batches of Spec: two runs with the same scan,
\* and an identifier with too few segments
PipeIds == <<IdA1, IdB1, IdBad>>

PipeFolders == {FolderInteger, FolderPlain}

\* The batch whose k-th row is rows[k] and lies in file owner[k]
batch_of(rows, owner, folder, kind) ==
    [i \in 1..NumFiles |->
        [above |-> <<>>,
         folder |-> folder[i],
         kind |-> kind[i],
         rows |-> LET mine == SelectSeq([k \in 1..Len(rows) |-> k],
                                        LAMBDA k : owner[k] = i)
                  IN  [k \in 1..Len(mine) |-> rows[mine[k]]],
         has_peptide |-> FALSE,
         peptides |-> <<>>]]

\* the ways to deal n rows to the files in order
owners(n) ==
    {o \in [1..n -> 1..NumFiles] : \A k \in 1..(n - 1) : o[k] <= o[k + 1]}

\* n rows of PipeIds dealt to the files by owner, the rows of one file in
\* the order of PipeIds
pipe_rows(n, owner) ==
    {[k \in 1..n |-> PipeIds[pick[k]]] :
        pick \in {p \in [1..n -> 1..Len(PipeIds)] :
                     \A k \in 1..(n - 1) :
                         owner[k] = owner[k + 1] => p[k] <= p[k + 1]}}

\* main has found the files and is about to start the pool
\* the worker count when --cores is not given, the cap of auto_detect, and
\* the processors of the host of the runs that do not vary them
DefaultCores == 64
CoreCap == 64
HostCpus == 8

\* min(64, cpu_count())
auto_detect(cpu_count) == IF cpu_count < CoreCap THEN cpu_count ELSE CoreCap

\* no extraction script runs
NoExtraction ==
    /\ script = "none"
    /\ mzml_files = {}
    /\ out_dir = <<>>
    /\ run_no = 0
    /\ reported = <<>>
    /\ previous = <<>>
    /\ invoked = {}
    /\ subprocess = <<>>
    /\ changed = {}
    /\ counts = None

\* main has parsed the command line and built the configuration
InitRun(batch, cores, cpu_count) ==
    /\ NoExtraction
    /\ args = [cores |-> cores]
    /\ cpus = cpu_count
    /\ n_cores = auto_detect(cpu_count)
    /\ pool = 0
    /\ found = batch
    /\ files = <<>>
    /\ pc = "start"
    /\ results = <<>>
    /\ log = {}
    /\ df_all = <<>>
    /\ summary = None
    /\ outputs = None
    /\ error = ""

\* a run with the default worker count
InitMain(batch) == InitRun(batch, DefaultCores, HostCpus)

all_tables == [i \in 1..NumFiles |-> "table"]

Init ==
    \E n \in 0..MaxRows :
        \E owner \in owners(n), folder \in [1..NumFiles -> PipeFolders] :
            \E rows \in pipe_rows(n, owner) :
                InitMain(batch_of(rows, owner, folder, all_tables))

Spec == Init /\ [][Next]_vars

----------------------------------------------------------------------------
(* Inputs of the identifier parser                                         *)

IdAlphabet == {"A", ".", ":", "1"}

\* every string over IdAlphabet of length at most MaxLen
ShortIds == {PyStr(s) : s \in strings_upto(IdAlphabet, MaxLen)}

\* run names: plain, empty, with dots, with colons, with the delimiter
RunNames ==
    {<<"A">>, <<"B">>, <<>>, <<"A", ".", "B">>, <<"A", ".", "1">>,
     <<"A", ":">>, <<"A", ":", ":", "1">>, <<":", ":">>}

ScanSegments ==
    {<<"1">>, <<"0", "1">>, <<"2">>, <<"-", "1">>, <<"1", "_", "0">>,
     <<"x">>, <<>>}
RepeatSegments == {<<"1">>, <<"x">>}
ChargeSegments == {<<"2">>, <<"+", "3">>, <<"z">>, <<>>}

ComposedIds ==
    {identifier(r, a, b, c) :
        r \in RunNames, a \in ScanSegments, b \in RepeatSegments,
        c \in ChargeSegments}

\* "RunA.00988.00988.2"
IdRunA988 ==
    identifier(<<"R", "u", "n", "A">>, <<"0", "0", "9", "8", "8">>,
               <<"0", "0", "9", "8", "8">>, <<"2">>)

\* "bad_identifier"
IdBadIdentifier ==
    PyStr(<<"b", "a", "d", "_", "i", "d", "e", "n", "t", "i", "f", "i", "e", "r">>)

\* a cell that is no string: an empty cell, a number
OtherCells == {NaN, PyInt(5)}

IdInputs ==
    ShortIds \cup ComposedIds \cup OtherCells \cup {IdRunA988, IdBadIdentifier}

\* identifiers with integer segments, for pairs of records
PairIds ==
    {identifier(r, a, <<"1">>, <<"2">>) :
        r \in RunNames, a \in {<<"1">>, <<"0", "1">>, <<"2">>, <<"-", "1">>}}

\* file 1 holds rows1, file 2 holds rows2, the other files hold no row
two_files(folder1, rows1, folder2, rows2) ==
    [i \in 1..NumFiles |->
        [above |-> <<>>,
         folder |-> IF i = 1 THEN folder1 ELSE folder2,
         kind |-> "table",
         rows |-> IF i = 1 THEN rows1 ELSE IF i = 2 THEN rows2 ELSE <<>>,
         has_peptide |-> FALSE,
         peptides |-> <<>>]]

\* One table with one cell of IdInputs, two tables whose Spectrum columns
\* hold no string, or two tables that hold a pair of PairIds between them,
\* with or without an unparseable row beside it.
InitIds ==
    \/ \E x \in IdInputs :
           InitMain(two_files(FolderInteger, <<x>>, FolderInteger, <<>>))
    \/ \E x \in OtherCells, y \in OtherCells \cup {IdRunA988} :
           InitMain(two_files(FolderInteger, <<x>>, FolderInteger, <<y>>))
    \/ \E x \in PairIds, y \in PairIds :
        \E rest \in {<<>>, <<IdBad>>} :
           \/ InitMain(two_files(FolderInteger, <<x, y>> \o rest,
                                 FolderInteger, <<>>))
           \/ InitMain(two_files(FolderInteger, <<x>>,
                                 FolderInteger, <<y>> \o rest))

SpecIds == InitIds /\ [][Next]_vars

----------------------------------------------------------------------------
(* Inputs of the folder-name parser                                        *)

FieldStrings == {<<"1">>, <<"6">>, <<"2", "4">>}

\* the fields joined by "_", with "mz" after field mz_at (0: no "mz")
RECURSIVE folder_name(_, _)
folder_name(fields, mz_at) ==
    IF fields = <<>> THEN <<>>
    ELSE LET n == Len(fields)
             head == folder_name(SubSeq(fields, 1, n - 1), mz_at)
         IN  (IF n = 1 THEN <<>> ELSE head \o <<"_">>)
             \o fields[n]
             \o (IF mz_at = n THEN <<"m", "z">> ELSE <<>>)

\* "118_60_1_6_1mz"
FolderMzLast ==
    <<"1", "1", "8", "_", "6", "0", "_", "1", "_", "6", "_", "1", "m", "z">>
\* "86_45_24mz_2b" and "x86_45_24mz_2"
FolderSuffixed ==
    <<"8", "6", "_", "4", "5", "_", "2", "4", "m", "z", "_", "2", "b">>
FolderPrefixed ==
    <<"x", "8", "6", "_", "4", "5", "_", "2", "4", "m", "z", "_", "2">>

FolderNames ==
    UNION {{folder_name(fields, mz_at) :
               fields \in [1..k -> FieldStrings], mz_at \in 0..k} :
           k \in 0..MaxFields}
    \cup {FolderDecimal, FolderInteger, FolderPlain, FolderMzLast,
          FolderSuffixed, FolderPrefixed}

\* One table in a folder of FolderNames, beside a table in an integer-style
\* folder that holds one row or none.
InitFolders ==
    \E f \in FolderNames, rows2 \in {<<>>, <<IdB1>>} :
        InitMain(two_files(f, <<IdA1>>, FolderInteger, rows2))

SpecFolders == InitFolders /\ [][Next]_vars

----------------------------------------------------------------------------
(* Batches with files that fail to load and files below lib                *)

Library == <<"l", "i", "b", "r", "a", "r", "y">>

\* where a file lies: the folders above its folder, and its folder
Locations ==
    {[above |-> <<>>, folder |-> FolderInteger],
     [above |-> <<>>, folder |-> Lib],
     [above |-> <<Lib>>, folder |-> FolderInteger],
     [above |-> <<Lib, FolderPlain>>, folder |-> FolderInteger],
     [above |-> <<Library>>, folder |-> FolderInteger],
     [above |-> <<>>, folder |-> Library]}

\* the k-th Spectrum cell of the i-th file: run "F<i>", scan k
file_cell(i, k) ==
    identifier(<<"F", DigitChar(i)>>, <<DigitChar(k)>>, <<DigitChar(k)>>,
               <<"2">>)

\* an unparseable Spectrum cell of the i-th file
bad_cell(i) == PyStr(<<"b", "a", "d", DigitChar(i)>>)

\* what a file holds: a file read_csv cannot read, a table without Spectrum
\* column, a table with header and no row, a table with one row, and a table
\* with a parseable and an unparseable row
Contents(i) ==
    {[kind |-> "unreadable", rows |-> <<>>],
     [kind |-> "no_spectrum", rows |-> <<file_cell(i, 1)>>],
     [kind |-> "table", rows |-> <<>>],
     [kind |-> "table", rows |-> <<file_cell(i, 1)>>],
     [kind |-> "table", rows |-> <<file_cell(i, 1), bad_cell(i)>>]}

located_files(location, content) ==
    [i \in 1..NumFiles |->
        [above |-> location[i].above,
         folder |-> location[i].folder,
         kind |-> content[i].kind,
         rows |-> content[i].rows,
         has_peptide |-> FALSE,
         peptides |-> <<>>]]

content_choices ==
    {c \in [1..NumFiles -> UNION {Contents(i) : i \in 1..NumFiles}] :
        \A i \in 1..NumFiles : c[i] \in Contents(i)}

InitBatch ==
    \E location \in [1..NumFiles -> Locations], content \in content_choices :
        InitMain(located_files(location, content))

SpecBatch == InitBatch /\ [][Next]_vars

----------------------------------------------------------------------------
(* Runs with a worker count, on hosts of several sizes                     *)

\* values of --cores, and numbers of processors
CoreOptions == {0, 1, 4, DefaultCores, 2 * DefaultCores}
CpuCounts == {1, 4, HostCpus, CoreCap, 2 * CoreCap}

InitPool ==
    \E cores \in CoreOptions, cpu_count \in CpuCounts :
        \E rows2 \in {<<>>, <<IdB1>>} :
            InitRun(two_files(FolderInteger, <<IdA1>>, FolderInteger, rows2),
                    cores, cpu_count)

SpecPool == InitPool /\ [][Next]_vars

----------------------------------------------------------------------------
(* Tables with a Peptide column                                            *)

PeptideAlphabet == {"A", "[", "]", "\n"}

\* the cells of a Peptide column that are strings; read_csv gives a missing
\* value for an empty cell
PeptideStrings ==
    {PyStr(p) : p \in strings_upto(PeptideAlphabet, MaxPeptide) \ {<<>>}}

\* "A[]A", beside which a missing peptide is put
PeptideBesideMissing == PyStr(<<"A", "[", "]", "A">>)

\* one table with a Peptide column
peptide_table(rows, peptides) ==
    [i \in 1..NumFiles |->
        [above |-> <<>>,
         folder |-> FolderInteger,
         kind |-> "table",
         rows |-> IF i = 1 THEN rows ELSE <<>>,
         has_peptide |-> TRUE,
         peptides |-> IF i = 1 THEN peptides ELSE <<>>]]

\* two tables of one row each, of which only table having has a Peptide
\* column, with the cell p
mixed_tables(having, p) ==
    [i \in 1..NumFiles |->
        [above |-> <<>>,
         folder |-> FolderInteger,
         kind |-> "table",
         rows |-> IF i = 1 THEN <<IdA1>> ELSE IF i = 2 THEN <<IdB1>> ELSE <<>>,
         has_peptide |-> i = having,
         peptides |-> IF i = having THEN <<p>> ELSE <<>>]]

\* A table with one peptide of PeptideStrings, with a missing peptide alone
\* or beside a peptide; a table with a Peptide column before or after a
\* table without one.
InitPeptide ==
    \/ \E p \in PeptideStrings \cup {NaN} :
           InitMain(peptide_table(<<IdA1>>, <<p>>))
    \/ InitMain(peptide_table(<<IdA1, IdB1>>, <<PeptideBesideMissing, NaN>>))
    \/ \E having \in {1, 2}, p \in {PeptideBesideMissing, NaN} :
           InitMain(mixed_tables(having, p))

SpecPeptide == InitPeptide /\ [][Next]_vars

----------------------------------------------------------------------------
(* Folders with windows at and around the breakpoints                      *)

WindowWholes ==
    {<<"0">>, <<"3">>, <<"4">>, <<"5">>, <<"1", "2">>, <<"1", "3">>,
     <<"1", "0", "0">>, <<"1", "0", "1">>}
WindowFractions == {<<"0">>, <<"1">>, <<"0", "5">>}

\* "1_1_<whole>mz_1" and "1_1_<whole>_<frac>mz_1"
WindowFolders ==
    {folder_name(<<<<"1">>, <<"1">>, w, <<"1">>>>, 3) : w \in WindowWholes}
    \cup {folder_name(<<<<"1">>, <<"1">>, w, f, <<"1">>>>, 4) :
              w \in WindowWholes, f \in WindowFractions}
    \cup {FolderPlain}

\* One table in a folder of WindowFolders, beside a table in the folder
\* "86_45_24mz_2" that holds one row or none.
InitWindows ==
    \E f \in WindowFolders, rows2 \in {<<>>, <<IdB1>>} :
        InitMain(two_files(f, <<IdA1>>, FolderInteger, rows2))

SpecWindows == InitWindows /\ [][Next]_vars

----------------------------------------------------------------------------
(* FEATURE EXTRACTION                                                      *)

\* the most mzML files in MZML_DIR
MaxMzml == 2
\* the most runs of a script, one after the other
MaxRuns == 2

\* an output is skipped as already done when its st_size is above this
SkipMin == 1000
\* an output that biosaur2 left verifies when its st_size is above this
VerifyMin == 100

\* output_file: it exists or not, and its st_size
Missing == [exists |-> FALSE, st_size |-> 0]
File(n) == [exists |-> TRUE, st_size |-> n]

\* if output_file.exists() and output_file.stat().st_size > 1000
already_done(output_file) ==
    output_file.exists /\ output_file.st_size > SkipMin

\* if output_file.exists() and output_file.stat().st_size > 100
verified(output_file) ==
    output_file.exists /\ output_file.st_size > VerifyMin

\* the most files the pool of the parallel script works on at a time
N_PARALLEL == 4

\* the most characters of stderr, or of the text of an exception, that a
\* message holds
MessageMax == 200

\* text[:200]
truncated(text) ==
    IF Len(text) > MessageMax THEN SubSeq(text, 1, MessageMax) ELSE text

\* a text of n characters
RECURSIVE text_of(_)
text_of(n) ==
    IF n = 0 THEN ""
    ELSE IF n % 2 = 0 THEN text_of(n \div 2) \o text_of(n \div 2)
    ELSE "x" \o text_of(n - 1)

\* what biosaur2 may have written to stderr: nothing, or more than a
\* message holds
Stderr == {"", text_of(MessageMax + 1)}

\* how subprocess.run ends: it returns (exit status 0), or it raises
\* TimeoutExpired, CalledProcessError with the stderr of biosaur2, or
\* another exception with its text
Returned == [kind |-> "returned", text |-> ""]
Endings ==
    {Returned, [kind |-> "TimeoutExpired", text |-> ""],
     [kind |-> "Exception", text |-> "Permission denied"]}
    \cup {[kind |-> "CalledProcessError", text |-> e] : e \in Stderr}

\* biosaur_simple.py sets no timeout
EndingsSimple == {e \in Endings : e.kind # "TimeoutExpired"}

\* a file no run has reported yet
NotYet == [message |-> "PENDING"]

\* the script is in no subprocess.run for the file, it waits in one, or the
\* one it waits in has ended
NoCall == [state |-> "none"]
Running == [state |-> "running"]
Ended(ending) == [state |-> "ended", ending |-> ending]

\* process_single_file on a file that is already done: (name, True, "SKIP")
skip_result == [success |-> TRUE, message |-> "SKIP"]

\* process_single_file after subprocess.run has ended: the tuple it returns
\* for the ending and the output file it finds
call_result(ending, output_file) ==
    IF ending.kind = "returned"
    THEN IF verified(output_file)
         THEN [success |-> TRUE, message |-> "OK"]
         ELSE [success |-> FALSE, message |-> "Output file empty or missing"]
    ELSE IF ending.kind = "TimeoutExpired"
    THEN [success |-> FALSE, message |-> "TIMEOUT (>2h)"]
    ELSE IF ending.kind = "CalledProcessError"
    THEN [success |-> FALSE,
          message |-> "ERROR: " \o (IF ending.text # ""
                                    THEN truncated(ending.text)
                                    ELSE "Unknown error")]
    ELSE [success |-> FALSE,
          message |-> "EXCEPTION: " \o truncated(ending.text)]

\* n_fail of the parallel script, from the results of pool.map
n_fail(res) == Cardinality({f \in DOMAIN res : ~res[f].success})

\* the loop of biosaur_simple.py at a file that is already done: the line it
\* prints and the counter it adds to
loop_skip == [message |-> "SKIP", counter |-> "skip_count"]

\* the loop of biosaur_simple.py after subprocess.run has ended
loop_result(ending, output_file) ==
    IF ending.kind = "returned" /\ verified(output_file)
    THEN [message |-> "SUCCESS", counter |-> "success_count"]
    ELSE IF ending.kind = "returned"
    THEN [message |-> "FAILED (empty output)", counter |-> "fail_count"]
    ELSE [message |-> "FAILED", counter |-> "fail_count"]

\* success_count = 0, skip_count = 0, fail_count = 0
ZeroCounts == [success_count |-> 0, skip_count |-> 0, fail_count |-> 0]

\* sys.exit(1) if a file failed, sys.exit(0) otherwise
exit_code(failures) == IF failures > 0 THEN 1 ELSE 0

\* the outputs biosaur2 may leave: none, or a file of a size at or next to
\* one of the two thresholds
Sizes == {VerifyMin, VerifyMin + 1, SkipMin, SkipMin + 1}
Outputs == {Missing} \cup {File(n) : n \in Sizes}

\* the files a worker of the pool is at
in_pool == {f \in mzml_files : subprocess[f] # NoCall}

\* A worker of the pool of the parallel script starts process_single_file on
\* file f: it returns SKIP for a file that is already done, and calls
\* biosaur2 and waits for another.
PoolTake(f) ==
    /\ script = "parallel"
    /\ reported[f] = NotYet
    /\ subprocess[f] = NoCall
    /\ Cardinality(in_pool) < N_PARALLEL
    /\ IF already_done(out_dir[f])
       THEN /\ reported' = [reported EXCEPT ![f] = skip_result]
            /\ UNCHANGED <<invoked, subprocess>>
       ELSE /\ invoked' = invoked \cup {f}
            /\ subprocess' = [subprocess EXCEPT ![f] = Running]
            /\ UNCHANGED reported
    /\ UNCHANGED <<script, mzml_files, out_dir, run_no, previous, changed,
                   counts>>
    /\ UNCHANGED ingestion

\* biosaur2 for file f ends, or subprocess.run gives up on it, and leaves
\* an output or none
Biosaur2(f) ==
    /\ subprocess[f] = Running
    /\ \E ending \in IF script = "parallel" THEN Endings ELSE EndingsSimple :
           subprocess' = [subprocess EXCEPT ![f] = Ended(ending)]
    /\ \E written \in Outputs : out_dir' = [out_dir EXCEPT ![f] = written]
    /\ UNCHANGED <<script, mzml_files, run_no, reported, previous, invoked,
                   changed, counts>>
    /\ UNCHANGED ingestion

\* The worker that waited for biosaur2 on file f verifies the output and
\* returns; pool.map keeps the tuple at the file's position.
PoolReturn(f) ==
    /\ script = "parallel"
    /\ subprocess[f].state = "ended"
    /\ reported' = [reported EXCEPT
                       ![f] = call_result(subprocess[f].ending, out_dir[f])]
    /\ subprocess' = [subprocess EXCEPT ![f] = NoCall]
    /\ UNCHANGED <<script, mzml_files, out_dir, run_no, previous, invoked,
                   changed, counts>>
    /\ UNCHANGED ingestion

\* the file the loop of biosaur_simple.py is at: the first without a line
at == CHOOSE f \in mzml_files :
          /\ reported[f] = NotYet
          /\ \A g \in mzml_files : g < f => reported[g] # NotYet

\* The loop of biosaur_simple.py comes to its next file: it prints SKIP for
\* a file that is already done, and calls biosaur2 and waits for another.
MainLoop ==
    /\ script = "simple"
    /\ \E f \in mzml_files : reported[f] = NotYet
    /\ subprocess[at] = NoCall
    /\ IF already_done(out_dir[at])
       THEN /\ reported' = [reported EXCEPT
                               ![at] = [message |-> loop_skip.message]]
            /\ counts' = [counts EXCEPT ![loop_skip.counter] = @ + 1]
            /\ UNCHANGED <<invoked, subprocess>>
       ELSE /\ invoked' = invoked \cup {at}
            /\ subprocess' = [subprocess EXCEPT ![at] = Running]
            /\ UNCHANGED <<reported, counts>>
    /\ UNCHANGED <<script, mzml_files, out_dir, run_no, previous, changed>>
    /\ UNCHANGED ingestion

\* The loop of biosaur_simple.py after biosaur2 has ended: it verifies the
\* output, prints the line of the file and counts it.
MainLoopVerify ==
    /\ script = "simple"
    /\ \E f \in mzml_files : reported[f] = NotYet
    /\ subprocess[at].state = "ended"
    /\ LET r == loop_result(subprocess[at].ending, out_dir[at])
       IN  /\ reported' = [reported EXCEPT ![at] = [message |-> r.message]]
           /\ counts' = [counts EXCEPT ![r.counter] = @ + 1]
    /\ subprocess' = [subprocess EXCEPT ![at] = NoCall]
    /\ UNCHANGED <<script, mzml_files, out_dir, run_no, previous, invoked,
                   changed>>
    /\ UNCHANGED ingestion

\* The script has exited and is started again.  Between the two runs some
\* of the outputs may have been removed.
Rerun ==
    /\ script # "none"
    /\ \A f \in mzml_files : reported[f] # NotYet
    /\ run_no < MaxRuns
    /\ run_no' = run_no + 1
    /\ previous' = reported
    /\ reported' = [f \in mzml_files |-> NotYet]
    /\ invoked' = {}
    /\ counts' = ZeroCounts
    /\ \E gone \in SUBSET {f \in mzml_files : out_dir[f].exists} :
           /\ out_dir' = [f \in mzml_files |->
                             IF f \in gone THEN Missing ELSE out_dir[f]]
           /\ changed' = gone
    /\ UNCHANGED <<script, mzml_files, subprocess>>
    /\ UNCHANGED ingestion

NextExtract ==
    \/ \E f \in mzml_files : PoolTake(f)
    \/ \E f \in mzml_files : Biosaur2(f)
    \/ \E f \in mzml_files : PoolReturn(f)
    \/ MainLoop
    \/ MainLoopVerify
    \/ Rerun

\* the ingestion is not running
NoIngestion ==
    /\ args = [cores |-> DefaultCores]
    /\ cpus = HostCpus
    /\ n_cores = auto_detect(HostCpus)
    /\ pool = 0
    /\ found = <<>>
    /\ files = <<>>
    /\ pc = "start"
    /\ results = <<>>
    /\ log = {}
    /\ df_all = <<>>
    /\ summary = None
    /\ outputs = None
    /\ error = ""

\* The first run of one of the two scripts: the setup is valid (biosaur2 is
\* there, MZML_DIR holds at least one mzML file), and OUT_DIR holds whatever
\* earlier work left.
InitExtract ==
    /\ NoIngestion
    /\ script \in {"parallel", "simple"}
    /\ \E n \in 1..MaxMzml :
           /\ mzml_files = 1..n
           /\ out_dir \in [1..n -> Outputs]
           /\ reported = [f \in 1..n |-> NotYet]
           /\ previous = [f \in 1..n |-> NotYet]
           /\ subprocess = [f \in 1..n |-> NoCall]
    /\ run_no = 1
    /\ invoked = {}
    /\ changed = {}
    /\ counts = ZeroCounts

SpecExtract == InitExtract /\ [][NextExtract]_vars

----------------------------------------------------------------------------
(* Records of the loaded tables                                            *)

\* <<a, i>>: row i of the table that file a was loaded into
LoadedRows ==
    UNION {{<<a, i>> : i \in 1..Len(results[a].df)} :
           a \in {b \in DOMAIN results : results[b].done /\ results[b].ok}}

cell_at(p) == files[p[1]].rows[p[2]]
row_at(p) == results[p[1]].df[p[2]]
parsed_at(p) == parse_spectrum_column(cell_at(p))
has_key(p) == pd_notna(row_at(p).spectrum_key)

\* sub occurs in s
contains(s, sub) ==
    \E i \in 1..(Len(s) - Len(sub) + 1) : SubSeq(s, i, i + Len(sub) - 1) = sub

\* the positions of the dots of s, and the last of a set of positions
dot_positions(s) == {i \in 1..Len(s) : s[i] = "."}
last_of(positions) == CHOOSE i \in positions : \A j \in positions : j <= i

\* s cut at its last three dots: the text left of them, and the first and
\* the last of the three segments right of it
third_last_dot(s) ==
    last_of(dot_positions(s)
            \ {last_of(dot_positions(s)),
               last_of(dot_positions(s) \ {last_of(dot_positions(s))})})
run_part(s) == SubSeq(s, 1, third_last_dot(s) - 1)
scan_part(s) ==
    SubSeq(s, third_last_dot(s) + 1,
           last_of(dot_positions(s) \ {last_of(dot_positions(s))}) - 1)
charge_part(s) == SubSeq(s, last_of(dot_positions(s)) + 1, Len(s))

\* the cell is a string <run-name>.<scan>.<scan-repeated>.<charge> with
\* integer scan and charge segments
well_formed(cell) ==
    /\ cell.tag = "str"
    /\ Cardinality(dot_positions(cell.v)) >= 3
    /\ int_ok(scan_part(cell.v))
    /\ int_ok(charge_part(cell.v))

----------------------------------------------------------------------------
(* C1  Key uniqueness: two records that both have a spectrum key and whose *)
(* parsed (run name, scan number) pairs differ have different keys, also   *)
(* for run names that hold ':' or dots.                                    *)
KeyUniqueness ==
    \A p \in LoadedRows, q \in LoadedRows :
        (/\ has_key(p)
         /\ has_key(q)
         /\ <<parsed_at(p)[1], parsed_at(p)[2]>>
                # <<parsed_at(q)[1], parsed_at(q)[2]>>)
        => row_at(p).spectrum_key # row_at(q).spectrum_key

\* two keyed records of different runs with the same scan number, one of
\* the run names holding the delimiter
KeyUniquenessWitness ==
    \E p \in LoadedRows, q \in LoadedRows :
        /\ has_key(p)
        /\ has_key(q)
        /\ parsed_at(p)[2] = parsed_at(q)[2]
        /\ parsed_at(p)[1] # parsed_at(q)[1]
        /\ contains(parsed_at(p)[1].v, Delim)
        /\ row_at(p).spectrum_key # row_at(q).spectrum_key

(* C2  Key stability: two records with the same parsed run name and the    *)
(* same parsed scan number have the identical key string, whichever table  *)
(* each was loaded from and whatever other rows that table holds.          *)
KeyStability ==
    \A p \in LoadedRows, q \in LoadedRows :
        (/\ pd_notna(parsed_at(p)[1])
         /\ pd_notna(parsed_at(p)[2])
         /\ parsed_at(p)[1] = parsed_at(q)[1]
         /\ parsed_at(p)[2] = parsed_at(q)[2])
        => row_at(p).spectrum_key = row_at(q).spectrum_key

(* C3  Key assignment: a record has a key exactly when its parsed run name *)
(* and its parsed scan number are both present, and the key is the run     *)
(* name, then '::', then the scan number written as a decimal integer.     *)
KeyAssignment ==
    \A p \in LoadedRows :
        /\ has_key(p) <=>
               (pd_notna(parsed_at(p)[1]) /\ pd_notna(parsed_at(p)[2]))
        /\ has_key(p) =>
               row_at(p).spectrum_key =
                   PyStr(parsed_at(p)[1].v \o <<":", ":">>
                         \o int_str(parsed_at(p)[2].v))

(* C4  The delimiter '::' occurs neither in the run-name component nor in  *)
(* the scan-number component of any key that is constructed.               *)
DelimiterNotInComponents ==
    \A p \in LoadedRows :
        has_key(p) =>
            /\ ~contains(format(row_at(p).mzml_name), Delim)
            /\ ~contains(format(row_at(p).scan_number), Delim)

(* C5  Identifier parsing: for an identifier <run>.<scan>.<repeated>.      *)
(* <charge> with integer scan and charge segments the parser returns the   *)
(* text left of the last three segments (its dots kept) as the run name,   *)
(* the integer of the first of the three as the scan number and the        *)
(* integer of the last as the charge, and the loaded table holds these;    *)
(* 'RunA.00988.00988.2' gives ('RunA', 988, 2).                            *)
IdentifierParsing ==
    /\ \A a \in DOMAIN files : \A i \in 1..Len(files[a].rows) :
           well_formed(files[a].rows[i]) =>
               parse_spectrum_column(files[a].rows[i]) =
                   <<PyStr(run_part(files[a].rows[i].v)),
                     PyInt(int_value(scan_part(files[a].rows[i].v))),
                     PyInt(int_value(charge_part(files[a].rows[i].v)))>>
    /\ \A p \in LoadedRows :
           well_formed(cell_at(p)) =>
               /\ row_at(p).mzml_name = PyStr(run_part(cell_at(p).v))
               /\ to_float(row_at(p).scan_number) =
                      PyFloat(int_value(scan_part(cell_at(p).v)), 1)
               /\ to_float(row_at(p).charge_from_spectrum) =
                      PyFloat(int_value(charge_part(cell_at(p).v)), 1)
    /\ \A p \in LoadedRows :
           cell_at(p) = IdRunA988 =>
               parsed_at(p) =
                   <<PyStr(<<"R", "u", "n", "A">>), PyInt(988), PyInt(2)>>

\* 'RunA.00988.00988.2' was loaded, and so was an identifier whose run
\* name holds a dot
IdentifierParsingWitness ==
    \/ \E p \in LoadedRows :
           /\ cell_at(p) = IdRunA988
           /\ row_at(p).mzml_name = PyStr(<<"R", "u", "n", "A">>)
           /\ row_at(p).scan_number = PyInt(988)
           /\ row_at(p).charge_from_spectrum = PyInt(2)
    \/ \E p \in LoadedRows :
           /\ well_formed(cell_at(p))
           /\ row_at(p).mzml_name = PyStr(<<"A", ".", "B">>)
           /\ row_at(p).scan_number = PyInt(-1)

(* C6  Graceful identifier failure: for every cell the parser's result is  *)
(* all present or all absent; a string with fewer than 4 segments, a       *)
(* non-integer scan or charge segment, or a cell that is no string gives   *)
(* all absent; the table still loads, and the row has no spectrum key.     *)
GracefulIdentifierFailure ==
    /\ \A a \in DOMAIN files : \A i \in 1..Len(files[a].rows) :
           /\ \/ \A k \in 1..3 :
                     pd_notna(parse_spectrum_column(files[a].rows[i])[k])
              \/ parse_spectrum_column(files[a].rows[i]) = <<None, None, None>>
           /\ ~well_formed(files[a].rows[i]) =>
                  parse_spectrum_column(files[a].rows[i]) = <<None, None, None>>
    /\ \A a \in DOMAIN files :
           (results[a].done /\ files[a].rows # <<>>) =>
               /\ results[a].ok
               /\ ~results[a].logged
               /\ Len(results[a].df) = Len(files[a].rows)
    /\ \A p \in LoadedRows :
           ~well_formed(cell_at(p)) =>
               /\ ~pd_notna(row_at(p).mzml_name)
               /\ ~pd_notna(row_at(p).scan_number)
               /\ ~pd_notna(row_at(p).charge_from_spectrum)
               /\ ~has_key(p)

\* 'bad_identifier', a non-integer scan segment and an empty cell were each
\* loaded into a row without a key
GracefulIdentifierFailureWitness ==
    \E p \in LoadedRows :
        /\ \/ cell_at(p) = IdBadIdentifier
           \/ cell_at(p) = identifier(<<"A">>, <<"x">>, <<"1">>, <<"2">>)
           \/ cell_at(p) = NaN
        /\ ~has_key(p)
        /\ row_at(p).mzml_name = None

----------------------------------------------------------------------------
(* Folder names read field by field                                        *)

\* index of the first "_" of s at or after i, 0 when there is none
RECURSIVE first_underscore(_, _)
first_underscore(s, i) ==
    IF i > Len(s) THEN 0
    ELSE IF s[i] = "_" THEN i ELSE first_underscore(s, i + 1)

\* the fields of s between its underscores, from position start on
RECURSIVE fields_from(_, _)
fields_from(s, start) ==
    IF first_underscore(s, start) = 0 THEN <<SubSeq(s, start, Len(s))>>
    ELSE <<SubSeq(s, start, first_underscore(s, start) - 1)>>
         \o fields_from(s, first_underscore(s, start) + 1)

all_digits(x) == x # <<>> /\ \A i \in 1..Len(x) : x[i] \in Digits

\* x is digits followed by "mz"
digits_mz(x) ==
    /\ Len(x) >= 3
    /\ all_digits(SubSeq(x, 1, Len(x) - 2))
    /\ SubSeq(x, Len(x) - 1, Len(x)) = <<"m", "z">>

\* the digits x begins with
leading_digits(x) ==
    SubSeq(x, 1, Cardinality({i \in 1..Len(x) :
                                 \A j \in 1..i : x[j] \in Digits}))

\* fields 1-3 are numbers, field 4 is a number with "mz", field 5 begins
\* with a number: <a>_<b>_<whole>_<frac>mz_<replicate>
decimal_style_fields(f) ==
    /\ Len(f) >= 5
    /\ all_digits(f[1]) /\ all_digits(f[2]) /\ all_digits(f[3])
    /\ digits_mz(f[4])
    /\ leading_digits(f[5]) # <<>>

\* fields 1-2 are numbers, field 3 is a number with "mz", field 4 begins
\* with a number: <a>_<b>_<window>mz_<replicate>
integer_style_fields(f) ==
    /\ Len(f) >= 4
    /\ all_digits(f[1]) /\ all_digits(f[2])
    /\ digits_mz(f[3])
    /\ leading_digits(f[4]) # <<>>

decimal_style(name) == decimal_style_fields(fields_from(name, 1))
integer_style(name) == integer_style_fields(fields_from(name, 1))

\* the number with the digits whole before and frac after the decimal point
decimal_number(whole, frac) ==
    PyFloat(digits_value(whole) * pow10(Len(frac)) + digits_value(frac),
            pow10(Len(frac)))

decimal_reading_fields(f) ==
    <<decimal_number(f[3], SubSeq(f[4], 1, Len(f[4]) - 2)),
      PyInt(digits_value(leading_digits(f[5])))>>
integer_reading_fields(f) ==
    <<decimal_number(SubSeq(f[3], 1, Len(f[3]) - 2), <<"0">>),
      PyInt(digits_value(leading_digits(f[4])))>>

decimal_reading(name) == decimal_reading_fields(fields_from(name, 1))
integer_reading(name) == integer_reading_fields(fields_from(name, 1))

\* every row of the table of file a has this window and this replicate
table_metadata(a, window, replicate) ==
    \A i \in 1..Len(results[a].df) :
        /\ results[a].df[i].window_mz = window
        /\ results[a].df[i].replicate = replicate

Loaded == {a \in DOMAIN results : results[a].done /\ results[a].ok}

Float_1_6 == [tag |-> "float", num |-> 8, den |-> 5]
Float_24 == [tag |-> "float", num |-> 24, den |-> 1]

(* C7  Folder metadata parsing, as the claim states it: "118_60_1_6_1mz"   *)
(* gives window 1.6, "86_45_24mz_2" gives window 24.0 and replicate 2.     *)
FolderMetadataAsClaimed ==
    \A a \in Loaded :
        /\ files[a].folder = FolderMzLast =>
               \A i \in 1..Len(results[a].df) :
                   results[a].df[i].window_mz = Float_1_6
        /\ files[a].folder = FolderInteger =>
               table_metadata(a, Float_24, PyInt(2))

(* C7, amended  "118_60_1_6mz_1" gives window 1.6 and replicate 1,         *)
(* "86_45_24mz_2" gives window 24.0 and replicate 2, "118_60_1_6_1mz"      *)
(* gives neither; every decimal-style name <a>_<b>_<whole>_<frac>mz_<rep>  *)
(* is read as whole.frac and never as an integer-style name, every         *)
(* integer-style name <a>_<b>_<window>mz_<rep> as window.0.                *)
FolderMetadataParsing ==
    /\ \A a \in DOMAIN files :
           /\ decimal_style(files[a].folder) =>
                  /\ parse_folder_name(files[a].folder)
                         = decimal_reading(files[a].folder)
                  /\ ~integer_style(files[a].folder)
           /\ integer_style(files[a].folder) =>
                  parse_folder_name(files[a].folder)
                      = integer_reading(files[a].folder)
    /\ \A a \in Loaded :
           /\ files[a].folder = FolderDecimal =>
                  table_metadata(a, Float_1_6, PyInt(1))
           /\ files[a].folder = FolderInteger =>
                  table_metadata(a, Float_24, PyInt(2))
           /\ files[a].folder = FolderMzLast =>
                  table_metadata(a, None, None)
           /\ decimal_style(files[a].folder) =>
                  table_metadata(a, decimal_reading(files[a].folder)[1],
                                 decimal_reading(files[a].folder)[2])

\* tables in "118_60_1_6mz_1" and in "86_45_24mz_2" were loaded with
\* windows 1.6 and 24.0
FolderMetadataParsingWitness ==
    /\ 1 \in Loaded
    /\ 2 \in Loaded
    /\ files[1].folder = FolderDecimal
    /\ files[2].folder = FolderInteger
    /\ results[1].df[1].window_mz = Float_1_6
    /\ results[1].df[1].replicate = PyInt(1)
    /\ results[2].df[1].window_mz = Float_24
    /\ results[2].df[1].replicate = PyInt(2)

----------------------------------------------------------------------------
(* The consolidated table, row by row from the input                       *)

\* file a is a table with rows outside the library folder
contributes(a) ==
    /\ files[a].folder # Lib
    /\ files[a].kind = "table"
    /\ files[a].rows # <<>>

\* the rows that the files before a contribute
RECURSIVE offset(_)
offset(a) ==
    IF a = 1 THEN 0
    ELSE offset(a - 1)
         + (IF contributes(a - 1) THEN Len(files[a - 1].rows) ELSE 0)

\* main has concatenated the tables
Concatenated == pc \notin {"start", "pool"} /\ error # "ValueError"

\* main has added the derived columns
Derived == pc \in {"stats", "save", "done"} \/ error = "ZeroDivisionError"

(* C8  Unparseable folder metadata is not an error: a folder name that     *)
(* matches no pattern gives window and replicate both absent, never one    *)
(* of them, a table in such a folder contributes every one of its rows to  *)
(* the consolidated table, window and replicate absent on them, and the    *)
(* absent window does not make the derive step raise.                      *)
UnparseableFolderContributes ==
    /\ error # "TypeError"
    /\ \A a \in DOMAIN files :
           /\ parse_folder_name(files[a].folder)[1] = None
                  <=> parse_folder_name(files[a].folder)[2] = None
           /\ (~decimal_style(files[a].folder)
               /\ ~integer_style(files[a].folder))
                  => parse_folder_name(files[a].folder) = <<None, None>>
    /\ Concatenated =>
           /\ Len(df_all) = offset(Len(files) + 1)
           /\ \A a \in DOMAIN files :
                  (/\ contributes(a)
                   /\ ~decimal_style(files[a].folder)
                   /\ ~integer_style(files[a].folder))
                  => \A k \in 1..Len(files[a].rows) :
                         /\ df_all[offset(a) + k].Spectrum = files[a].rows[k]
                         /\ df_all[offset(a) + k].source_folder = files[a].folder
                         /\ ~pd_notna(df_all[offset(a) + k].window_mz)
                         /\ ~pd_notna(df_all[offset(a) + k].replicate)

----------------------------------------------------------------------------
(* The batch without its unparseable rows                                  *)

\* the files with the rows of unparseable identifier removed
parseable_rows_only(batch) ==
    [a \in 1..Len(batch) |->
        [batch[a] EXCEPT !.rows = SelectSeq(@, well_formed)]]

\* the table main derives from a batch, empty when no file has rows
derived_tables(dataframes) ==
    IF dataframes = <<>> THEN <<>>
    ELSE add_derived_columns(pd_concat(dataframes))
derived_table_of(batch) ==
    derived_tables(dataframes_of(
        [a \in 1..Len(batch) |-> load_single_psm_file(batch[a])]))

\* the PSM count and the chimeric flag of each row
counts_of(df) ==
    [i \in 1..Len(df) |-> <<count_value(df[i].n_psm), df[i].is_chimeric>>]

keyed_rows(df) == SelectSeq(df, LAMBDA r : pd_notna(r.spectrum_key))

(* C9  Per-row parse error is recovered locally: a record whose identifier *)
(* cannot be parsed stays in the table with run name, scan number, charge  *)
(* and key absent, is never chimeric and is in no spectrum-to-file entry,  *)
(* and the counts and flags of the other records are what they are in the  *)
(* same batch without the unparseable records.                             *)
ParseErrorRecoveredLocally ==
    /\ Derived =>
           /\ \A a \in DOMAIN files : \A k \in 1..Len(files[a].rows) :
                  (contributes(a) /\ ~well_formed(files[a].rows[k]))
                  => /\ df_all[offset(a) + k].Spectrum = files[a].rows[k]
                     /\ ~pd_notna(df_all[offset(a) + k].mzml_name)
                     /\ ~pd_notna(df_all[offset(a) + k].scan_number)
                     /\ ~pd_notna(df_all[offset(a) + k].charge_from_spectrum)
                     /\ ~pd_notna(df_all[offset(a) + k].spectrum_key)
                     /\ ~pd_notna(df_all[offset(a) + k].n_psm)
                     /\ ~df_all[offset(a) + k].is_chimeric
           /\ counts_of(keyed_rows(df_all))
                  = counts_of(derived_table_of(parseable_rows_only(files)))
    /\ pc = "done" =>
           \A key \in DOMAIN outputs.spectrum_to_file : pd_notna(key)

(* C10  Chimericity is a cross-record aggregate: after the derive step the *)
(* PSM count of a keyed record is the number of records of all files that  *)
(* carry its key, and the record is chimeric exactly when that is 2 or     *)
(* more.                                                                   *)
ChimericityAggregation ==
    Derived =>
        /\ Len(df_all) = offset(Len(files) + 1)
        /\ \A a \in DOMAIN files : \A k \in 1..Len(results[a].df) :
               pd_notna(results[a].df[k].spectrum_key)
               => /\ df_all[offset(a) + k].spectrum_key
                         = results[a].df[k].spectrum_key
                  /\ count_value(df_all[offset(a) + k].n_psm)
                         = Cardinality(
                               {p \in LoadedRows :
                                   row_at(p).spectrum_key
                                       = results[a].df[k].spectrum_key})
                  /\ df_all[offset(a) + k].is_chimeric
                         <=> Cardinality(
                                 {p \in LoadedRows :
                                     row_at(p).spectrum_key
                                         = results[a].df[k].spectrum_key}) >= 2

\* main is done; three records of two files share a key, have count 3 and
\* are chimeric, and a record alone with its key has count 1 and is not
ChimericityAggregationWitness ==
    /\ pc = "done"
    /\ \E i \in 1..Len(df_all) :
           /\ count_value(df_all[i].n_psm) = 1
           /\ ~df_all[i].is_chimeric
    /\ \E i \in 1..Len(df_all), j \in 1..Len(df_all) :
           /\ df_all[i].source_folder # df_all[j].source_folder
           /\ df_all[i].spectrum_key = df_all[j].spectrum_key
           /\ count_value(df_all[i].n_psm) = 3
           /\ df_all[i].is_chimeric

----------------------------------------------------------------------------
(* Files that fail to load                                                 *)

\* file a was handed to the pool and cannot be parsed into a table with
\* rows: it is unreadable, has no Spectrum column or has no row
fails_to_parse(a) ==
    /\ files[a].folder # Lib
    /\ files[a].kind # "table" \/ files[a].rows = <<>>

\* the batch without the files that fail to load
loadable_only(batch) ==
    SelectSeq(batch, LAMBDA f : /\ f.folder # Lib
                                /\ f.kind = "table"
                                /\ f.rows # <<>>)

\* the table main concatenates from a batch, empty when no file has rows
concatenated_tables(dataframes) ==
    IF dataframes = <<>> THEN <<>> ELSE pd_concat(dataframes)
concatenated_table_of(batch) ==
    concatenated_tables(dataframes_of(
        [a \in 1..Len(batch) |-> load_single_psm_file(batch[a])]))

\* the pool ran and pd.concat raised
ConcatAborted == pc = "crashed" /\ error = "ValueError" /\ pool # 0

\* the consolidated table holds the rows of the files that load, in order,
\* and is the table of the batch without the failing files
OnlyLoadedRows ==
    Concatenated =>
        /\ Len(df_all) = offset(Len(files) + 1)
        /\ \A a \in DOMAIN files : \A k \in 1..Len(files[a].rows) :
               contributes(a) =>
                   df_all[offset(a) + k].Spectrum = files[a].rows[k]
        /\ pc = "derive" =>
               df_all = concatenated_table_of(loadable_only(files))

(* C11  Per-file failure isolation: whatever subset of the files fails to  *)
(* load, pd.concat does not abort the batch, and the consolidated table    *)
(* holds exactly the rows of the files that loaded, as in the batch        *)
(* without the failing files.                                              *)
FailureIsolation ==
    /\ (\E a \in DOMAIN files : fails_to_parse(a)) => ~ConcatAborted
    /\ OnlyLoadedRows

(* C12  Every dropped file is logged: a file that load_single_psm_file     *)
(* drops because it cannot be parsed (unreadable, no Spectrum column, no   *)
(* row) has printed its error message.                                     *)
DroppedFileLogged ==
    \A a \in DOMAIN files :
        (results[a].done /\ fails_to_parse(a))
        => /\ ~results[a].ok
           /\ a \in log

----------------------------------------------------------------------------
(* Files below lib                                                         *)

\* the file lies in a folder named lib, at any depth
under_lib(f) ==
    f.folder = Lib \/ \E k \in 1..Len(f.above) : f.above[k] = Lib

\* the Spectrum cells of the files found below lib, and of the tables found
\* elsewhere
cells_under_lib ==
    UNION {{found[j].rows[k] : k \in 1..Len(found[j].rows)} :
           j \in {i \in DOMAIN found : under_lib(found[i])}}
cells_elsewhere ==
    UNION {{found[j].rows[k] : k \in 1..Len(found[j].rows)} :
           j \in {i \in DOMAIN found :
                     ~under_lib(found[i]) /\ found[i].kind = "table"}}

(* C13  Exclusion rule: no row of a file below a folder named lib, at any  *)
(* depth, is in the consolidated table or in the saved outputs; the rows   *)
(* of a table below a folder named library are in them.                    *)
ExclusionRule ==
    /\ \A i \in 1..Len(df_all) : df_all[i].Spectrum \notin cells_under_lib
    /\ Concatenated =>
           cells_elsewhere = {df_all[i].Spectrum : i \in 1..Len(df_all)}
    /\ pc = "done" =>
           cells_elsewhere
               = {outputs.psm_clean[i].Spectrum :
                     i \in 1..Len(outputs.psm_clean)}

\* main is done; a table with rows was found two folders below lib, and the
\* saved table holds the rows of a table below library
ExclusionRuleWitness ==
    /\ pc = "done"
    /\ \E j \in DOMAIN found :
           /\ found[j].above = <<Lib, FolderPlain>>
           /\ found[j].kind = "table"
           /\ found[j].rows # <<>>
    /\ \E j \in DOMAIN found :
           /\ found[j].above = <<Library>>
           /\ found[j].rows # <<>>
           /\ \E i \in 1..Len(outputs.psm_clean) :
                  outputs.psm_clean[i].Spectrum = found[j].rows[1]

----------------------------------------------------------------------------
(* The batch in another order                                              *)

\* the files in the order perm
reordered(batch, perm) == [i \in 1..Len(batch) |-> batch[perm[i]]]

\* two tables hold the same rows the same number of times
same_rows(a, b) ==
    /\ Len(a) = Len(b)
    /\ \A i \in 1..Len(a) :
           Cardinality({j \in 1..Len(a) : a[j] = a[i]})
               = Cardinality({j \in 1..Len(b) : b[j] = a[i]})

\* what main derives and saves from a table
same_outputs(df) ==
    /\ same_rows(outputs.psm_clean, df)
    /\ same_rows(outputs.psm_chimeric, SelectSeq(df, LAMBDA r : r.is_chimeric))
    /\ outputs.spectrum_to_file = spectrum_to_file(df)
    /\ outputs.psm_stats = print_validation_stats(df)

(* C14  Idempotent, order-independent batch load: the consolidated table   *)
(* with its derived columns holds the same rows, as a multiset, as the     *)
(* table main builds from the same files in any other order, and the saved *)
(* outputs have equal content.                                             *)
OrderIndependentLoad ==
    /\ pc = "stats" =>
           \A perm \in Permutations(DOMAIN files) :
               same_rows(df_all, derived_table_of(reordered(files, perm)))
    /\ pc = "done" =>
           \A perm \in Permutations(DOMAIN files) :
               same_outputs(derived_table_of(reordered(files, perm)))

\* main is done with two different files, one of them with an unparseable
\* row, and a spectrum with records in both files
OrderIndependentLoadWitness ==
    /\ pc = "done"
    /\ Len(files) >= 2
    /\ files[1] # files[2]
    /\ \E k \in 1..Len(files[1].rows) : ~well_formed(files[1].rows[k])
    /\ \E i \in 1..Len(df_all), j \in 1..Len(df_all) :
           /\ df_all[i].source_folder # df_all[j].source_folder
           /\ df_all[i].spectrum_key = df_all[j].spectrum_key
           /\ df_all[i].is_chimeric

----------------------------------------------------------------------------
(* The saved lookup                                                        *)

\* the rows of the consolidated table that have a key
keyed == {i \in 1..Len(df_all) : pd_notna(df_all[i].spectrum_key)}

(* C15  Spectrum-to-run lookup: the keys of the saved mapping are exactly  *)
(* the spectrum keys of the consolidated table that are not absent, and    *)
(* each key maps to the run name of every record that has it.              *)
LookupOfRuns ==
    pc = "done" =>
        /\ DOMAIN outputs.spectrum_to_file
               = {df_all[i].spectrum_key : i \in keyed}
        /\ \A i \in keyed :
               outputs.spectrum_to_file[df_all[i].spectrum_key]
                   = df_all[i].mzml_name

\* the saved mapping has two keys of the same scan number with different
\* run names, one of the run names holding the delimiter, beside a record
\* without key
LookupOfRunsWitness ==
    /\ pc = "done"
    /\ \E i \in keyed, j \in keyed :
           /\ to_float(df_all[i].scan_number) = to_float(df_all[j].scan_number)
           /\ df_all[i].mzml_name # df_all[j].mzml_name
           /\ contains(df_all[i].mzml_name.v, Delim)
           /\ outputs.spectrum_to_file[df_all[i].spectrum_key]
                  # outputs.spectrum_to_file[df_all[j].spectrum_key]
    /\ keyed # 1..Len(df_all)

----------------------------------------------------------------------------
(* The summary                                                             *)

\* the columns of the consolidated table
column_names ==
    {c \in DOMAIN df_all[1] \ {"columns"} :
        c \in {"Peptide", "peptide_length"} => df_all[1][c] # NoColumn}

\* the window sizes of the consolidated table, each with the number of
\* records that have it, by increasing window size
window_counts ==
    LET sizes == sorted_floats(
                     unique_values([i \in 1..Len(df_all) |-> df_all[i].window_mz]))
    IN  [k \in 1..Len(sizes) |->
            [window_mz |-> sizes[k],
             psm_count |->
                 Cardinality({i \in 1..Len(df_all) :
                                 df_all[i].window_mz = sizes[k]})]]

\* the summary holds the record count, the spectrum count, the run count
\* and the column list, and it is what save_outputs wrote
SummaryCounts ==
    pc \in {"save", "done"} =>
        /\ summary.n_psm = Len(df_all)
        /\ summary.n_spectra
               = Cardinality({df_all[i].spectrum_key : i \in keyed})
        /\ summary.n_files
               = Cardinality({df_all[i].mzml_name : i \in keyed})
        /\ {summary.columns[k] : k \in 1..Len(summary.columns)} = column_names
        /\ Len(summary.columns) = Cardinality(column_names)
        /\ pc = "done" => outputs.psm_stats = summary

(* C16  Summary statistics content: the summary that                       *)
(* print_validation_stats returns and save_outputs persists holds the      *)
(* record count, the unique spectrum count, the unique run count, the      *)
(* column list, and for each window size the number of records with it.    *)
SummaryContent ==
    /\ SummaryCounts
    /\ pc \in {"save", "done"} => summary.window_sizes = window_counts

----------------------------------------------------------------------------
(* The worker pool                                                         *)

(* C17  Worker-pool bound: the pool that main creates has at most as many  *)
(* workers as the host has processors, for every value of --cores and for  *)
(* its default.                                                            *)
PoolBounded == pool <= cpus

----------------------------------------------------------------------------
(* Peptide sequences read bracket by bracket                               *)

\* the number of "[" minus the number of "]" among the first k characters
depth(s, k) ==
    Cardinality({i \in 1..k : s[i] = "["})
        - Cardinality({i \in 1..k : s[i] = "]"})

\* the square brackets of s are balanced
balanced(s) ==
    /\ depth(s, Len(s)) = 0
    /\ \A k \in 1..Len(s) : depth(s, k) >= 0

\* no annotation of s holds a bracket
not_nested(s) == \A k \in 1..Len(s) : depth(s, k) <= 1

\* the characters of s that lie outside every bracketed annotation
outside(s) ==
    {k \in 1..Len(s) : s[k] \notin {"[", "]"} /\ depth(s, k) = 0}

\* every peptide of the table that satisfies cond has as length the number
\* of its characters outside annotations
lengths_outside(cond(_)) ==
    Derived =>
        \A i \in 1..Len(df_all) :
            (df_all[i].Peptide.tag = "str" /\ cond(df_all[i].Peptide.v))
            => count_value(df_all[i].peptide_length)
                   = Cardinality(outside(df_all[i].Peptide.v))

(* C18  Peptide length, as the claim states it: for every sequence with    *)
(* balanced square brackets, also with an annotation that holds brackets,  *)
(* the peptide length is the number of characters outside annotations.     *)
PeptideLengthBalanced == lengths_outside(balanced)

\* no annotation of s holds a line break
one_line(s) == \A k \in 1..Len(s) : s[k] = "\n" => depth(s, k) = 0

(* C18, amended  For every sequence with balanced square brackets and      *)
(* neither a bracket nor a line break inside an annotation (no annotation, *)
(* several annotations, adjacent annotations), add_derived_columns does    *)
(* not raise on the Peptide column and the peptide length is the number of *)
(* characters outside annotations.                                         *)
PeptideLength ==
    /\ lengths_outside(LAMBDA s : balanced(s) /\ not_nested(s) /\ one_line(s))
    /\ error = "AttributeError" =>
           \A i \in 1..Len(df_all) : df_all[i].Peptide.tag # "str"

\* main is done for the peptide "[]A[]", two annotations around one residue,
\* with length 1
PeptideLengthWitness ==
    /\ pc = "done"
    /\ df_all[1].Peptide = PyStr(<<"[", "]", "A", "[", "]">>)
    /\ df_all[1].peptide_length = PyInt(1)

----------------------------------------------------------------------------
(* Window categories                                                       *)

\* low < w <= high for a window w that is not missing
within(w, low, high) ==
    /\ w.tag = "float"
    /\ low * w.den < w.num
    /\ w.num <= high * w.den

(* C19  Window bucketing: each record has at most one window category,     *)
(* narrow exactly when 0 < window <= 4, medium exactly when                *)
(* 4 < window <= 12, wide exactly when 12 < window <= 100, and none when   *)
(* the window is absent, 0 or above 100.                                   *)
WindowBucketing ==
    Derived =>
        \A i \in 1..Len(df_all) :
            /\ df_all[i].window_category = Category("narrow")
                   <=> within(df_all[i].window_mz, 0, 4)
            /\ df_all[i].window_category = Category("medium")
                   <=> within(df_all[i].window_mz, 4, 12)
            /\ df_all[i].window_category = Category("wide")
                   <=> within(df_all[i].window_mz, 12, 100)
            /\ df_all[i].window_category = NaN
                   <=> ~within(df_all[i].window_mz, 0, 100)

\* main is done with a record of window 4.0 in the category narrow, beside
\* a record of window 24.0 in the category wide
WindowBucketingWitness ==
    /\ pc = "done"
    /\ \E i \in 1..Len(df_all) :
           /\ df_all[i].window_mz = [tag |-> "float", num |-> 4, den |-> 1]
           /\ df_all[i].window_category = Category("narrow")
    /\ \E i \in 1..Len(df_all) :
           /\ df_all[i].window_mz = Float_24
           /\ df_all[i].window_category = Category("wide")

----------------------------------------------------------------------------
(* Tables whose rows have no key                                           *)

(* C20  Per-row parse errors are never fatal to the stage: whatever share  *)
(* of the rows of the consolidated table has no spectrum key, also all of  *)
(* them, print_validation_stats returns a summary and save_outputs writes  *)
(* the four outputs.                                                       *)
AbsentKeysNotFatal ==
    /\ error # "ZeroDivisionError"
    /\ pc = "save" => summary # None
    /\ pc = "done" =>
           /\ DOMAIN outputs
                  = {"psm_clean", "psm_chimeric", "spectrum_to_file",
                     "psm_stats"}
           /\ outputs.psm_clean = df_all
           /\ outputs.psm_stats = summary

----------------------------------------------------------------------------
(* Two runs of an extraction script                                        *)

\* the run reported the extraction of the file as successful: the tuple
\* (name, True, "OK") of the parallel script, the line SUCCESS of the other
succeeded(r) ==
    IF script = "parallel"
    THEN r # NotYet /\ r.success /\ r.message = "OK"
    ELSE r.message = "SUCCESS"

\* the run skipped the file
skipped(r) == r.message = "SKIP"

\* the run counted the file as failed
failed(r) ==
    IF script = "parallel"
    THEN r # NotYet /\ ~r.success
    ELSE r.message \in {"FAILED", "FAILED (empty output)"}

\* the run before this one has ended with no failure, exit code 0
clean_run_before ==
    /\ run_no > 1
    /\ IF script = "parallel"
       THEN exit_code(n_fail(previous)) = 0
       ELSE exit_code(Cardinality({f \in mzml_files :
                                      failed(previous[f])})) = 0

\* a file the run before skipped, whose output did not change since, is
\* skipped again, and biosaur2 is not called for it
SkippedStaysSkipped ==
    \A f \in mzml_files :
        (/\ run_no > 1
         /\ skipped(previous[f])
         /\ f \notin changed
         /\ reported[f] # NotYet)
        => /\ skipped(reported[f])
           /\ f \notin invoked

(* C21  Re-run skipping in feature extraction: in both scripts, a file     *)
(* whose extraction one run reported successful is skipped by the next run *)
(* (biosaur2 is not called for it and it is not counted as failed) when    *)
(* its output file did not change between the two runs; after a run with   *)
(* no failure, an immediate second run calls biosaur2 for no file.         *)
RerunSkipping ==
    /\ \A f \in mzml_files :
           (/\ run_no > 1
            /\ succeeded(previous[f])
            /\ f \notin changed
            /\ reported[f] # NotYet)
           => /\ skipped(reported[f])
              /\ f \notin invoked
              /\ ~failed(reported[f])
    /\ (clean_run_before /\ changed = {}) => invoked = {}

====
